---------------------------- MODULE Spec2Model ----------------------------
(***************************************************************************)
(* The Hodgkin-Huxley script src/HH/HH.py as a state machine: the time     *)
(* grid and smooth-step stimulus (lines 32-53), the forward Euler loop     *)
(* (lines 123-138), the finite-difference derivatives (lines 141-147) and  *)
(* the two threshold detectors (lines 154-179).                            *)
(*                                                                         *)
(* Numbers.  A Python float is a record [k, v]: k = "fin" with v the value *)
(* in units of 1/SCALE (four decimals, enough to write every literal of    *)
(* the script exactly), or k = "nan", "pinf", "ninf" for the IEEE-754      *)
(* specials numpy produces, or k = "none" for Python's None.  Products and *)
(* quotients are truncated to the unit, as a float rounds to its mantissa. *)
(* Arrays are sequences, so source index i is model index i+1.             *)
(***************************************************************************)
EXTENDS Integers, Sequences, FiniteSets

SCALE == 100 * 100

Fin(x) == [k |-> "fin", v |-> x]
NaN    == [k |-> "nan", v |-> 0]
PInf   == [k |-> "pinf", v |-> 0]
NInf   == [k |-> "ninf", v |-> 0]
None   == [k |-> "none", v |-> 0]
Zero   == Fin(0)
One    == Fin(SCALE)

IsFin(a) == a.k = "fin"

Abs(x) == IF x < 0 THEN -x ELSE x
\* sign of a value, a float zero counting as +0
Sgn(a) == IF a.k = "ninf" \/ (a.k = "fin" /\ a.v < 0) THEN -1 ELSE 1
InfOf(s) == IF s < 0 THEN NInf ELSE PInf

\* |x*y| / SCALE truncated, without an intermediate product beyond 32 bits
MulMag(x, y) ==
    LET x1 == x \div SCALE  x0 == x % SCALE
        y1 == y \div SCALE  y0 == y % SCALE
    IN  x1 * y1 * SCALE + x1 * y0 + x0 * y1 + (x0 * y0) \div SCALE

\* |x| * SCALE / |y| truncated, by long division two digits at a time
DivMag(x, y) ==
    LET q1 == x \div y            r1 == x % y
        q2 == (r1 * 100) \div y   r2 == (r1 * 100) % y
        q3 == (r2 * 100) \div y
    IN  q1 * SCALE + q2 * 100 + q3

Neg(a) == CASE a.k = "fin"  -> Fin(-a.v)
            [] a.k = "pinf" -> NInf
            [] a.k = "ninf" -> PInf
            [] OTHER        -> a

Add(a, b) == CASE a.k = "nan" \/ b.k = "nan" -> NaN
               [] a.k = "fin" /\ b.k = "fin" -> Fin(a.v + b.v)
               [] a.k = "fin"                -> b
               [] b.k = "fin"                -> a
               [] a.k = b.k                  -> a
               [] OTHER                      -> NaN

Sub(a, b) == Add(a, Neg(b))

Mul(a, b) == CASE a.k = "nan" \/ b.k = "nan" -> NaN
               [] a.k = "fin" /\ b.k = "fin" ->
                    Fin(Sgn(a) * Sgn(b) * MulMag(Abs(a.v), Abs(b.v)))
               [] (a.k = "fin" /\ a.v = 0) \/ (b.k = "fin" /\ b.v = 0) -> NaN
               [] OTHER -> InfOf(Sgn(a) * Sgn(b))

\* numpy float64 division: 0/0 is nan and x/0 is an infinity (a warning, no exception)
Div(a, b) == CASE a.k = "nan" \/ b.k = "nan" -> NaN
               [] a.k = "fin" /\ b.k = "fin" ->
                    IF b.v = 0
                    THEN IF a.v = 0 THEN NaN ELSE InfOf(Sgn(a))
                    ELSE Fin(Sgn(a) * Sgn(b) * DivMag(Abs(a.v), Abs(b.v)))
               [] a.k = "fin" -> Zero
               [] b.k = "fin" -> InfOf(Sgn(a) * Sgn(b))
               [] OTHER       -> NaN

\* IEEE comparisons: anything compared with nan is False
Gt(a, b) == /\ a.k # "nan" /\ b.k # "nan"
            /\ \/ a.k = "fin" /\ b.k = "fin" /\ a.v > b.v
               \/ a.k = "pinf" /\ b.k # "pinf"
               \/ b.k = "ninf" /\ a.k # "ninf"
Lt(a, b) == Gt(b, a)
Ge(a, b) == a.k # "nan" /\ b.k # "nan" /\ ~Gt(b, a)
Le(a, b) == Ge(b, a)

\* np.exp by its [2/2] Pade approximant (12+6x+x^2)/(12-6x+x^2): exactly 1 at
\* x = 0 and nowhere else, positive everywhere; exp(nan) = nan, exp(+-inf) = inf, 0
Exp(x) == CASE x.k = "nan"  -> NaN
            [] x.k = "pinf" -> PInf
            [] x.k = "ninf" -> Zero
            [] OTHER ->
                 LET sq == Mul(x, x)
                     s6 == Fin(6 * x.v)
                     c  == Fin(12 * SCALE)
                 IN  Div(Add(Add(c, s6), sq), Add(Sub(c, s6), sq))

\* x ** p for a small positive integer p, by repeated multiplication
RECURSIVE Pow(_, _)
Pow(x, p) == IF p = 1 THEN x ELSE Mul(Pow(x, p - 1), x)

(***************************************************************************)
(* Kinetic rates, steady states and currents (lines 79-120).               *)
(***************************************************************************)
alphan(V) == Div(Mul(Fin(100), Add(V, Fin(55 * SCALE))),
                 Sub(One, Exp(Mul(Fin(-1000), Add(V, Fin(55 * SCALE))))))
betan(V)  == Mul(Fin(1250), Exp(Mul(Fin(-125), Add(V, Fin(65 * SCALE)))))
alpham(V) == Div(Mul(Fin(1000), Add(V, Fin(40 * SCALE))),
                 Sub(One, Exp(Mul(Fin(-1000), Add(V, Fin(40 * SCALE))))))
betam(V)  == Mul(Fin(4 * SCALE), Exp(Mul(Fin(-556), Add(V, Fin(65 * SCALE)))))
alphah(V) == Mul(Fin(700), Exp(Mul(Fin(-500), Add(V, Fin(65 * SCALE)))))
betah(V)  == Div(One, Add(One, Exp(Mul(Fin(-1000), Add(V, Fin(35 * SCALE))))))

\* the slip of taking the time constant (line 89) for the steady state (line 88)
ninftyAsTau(V) == Div(One, Add(alphan(V), betan(V)))

ninfty(V) == Div(alphan(V), Add(alphan(V), betan(V)))
minfty(V) == Div(alpham(V), Add(alpham(V), betam(V)))
hinfty(V) == Div(alphah(V), Add(alphah(V), betah(V)))

Cm  == Fin(1 * SCALE)
gL  == Fin(3000)
EL  == Fin(-543870)
gK  == Fin(36 * SCALE)
EK  == Fin(-77 * SCALE)
gNa == Fin(120 * SCALE)
ENa == Fin(50 * SCALE)

IL(V)        == Mul(Neg(gL), Sub(V, EL))
IK(n, V)     == Mul(Mul(Neg(gK), Pow(n, 4)), Sub(V, EK))
INa(m, h, V) == Mul(Mul(Mul(Neg(gNa), Pow(m, 3)), h), Sub(V, ENa))
Iion(n, m, h, V) == Add(Add(IL(V), IK(n, V)), INa(m, h, V))

(***************************************************************************)
(* Library functions the script calls.                                     *)
(***************************************************************************)
\* ceil(a/b) for integers a and b, b # 0
CeilDiv(a, b) == IF b > 0 THEN -((-a) \div b) ELSE -(a \div (-b))

\* a grid that keeps the endpoint: floor(stop/step) + 1 samples
ArangeInclusive(stop, step) ==
    LET len == -CeilDiv(-stop, step) + 1
    IN  [j \in 1..(IF len > 0 THEN len ELSE 0) |-> Fin((j - 1) * step)]

\* np.arange(0, stop, step): ceil(stop/step) samples 0, step, 2*step, ..., none
\* when that count is not positive (step = 0 raises before this is reached)
Arange(stop, step) ==
    LET len == CeilDiv(stop, step)
    IN  [j \in 1..(IF len > 0 THEN len ELSE 0) |-> Fin((j - 1) * step)]

ZerosLike(a) == [j \in 1..Len(a) |-> Zero]

\* the standard normal cdf at whole standard deviations -4..4
PhiKnots == << 0, 13, 228, 1587, 5000, 8413, 9772, 9987, 10000 >>

\* scipy.stats.norm.cdf(t, loc, scale): nan when scale <= 0 (no exception);
\* otherwise Phi((t-loc)/scale), linear between the knots and 0 or 1 beyond them
NormCdf(t, loc, scale) ==
    IF ~IsFin(scale) \/ scale.v <= 0 THEN NaN
    ELSE LET z == Div(Sub(t, loc), scale)
         IN  CASE z.k = "nan"  -> NaN
               [] z.k = "pinf" -> One
               [] z.k = "ninf" -> Zero
               [] z.v <= -4 * SCALE -> Zero
               [] z.v >= 4 * SCALE  -> One
               [] OTHER ->
                    LET lo   == z.v \div SCALE
                        frac == z.v - lo * SCALE
                        a    == PhiKnots[lo + 5]
                        b    == PhiKnots[lo + 6]
                    IN  Fin(a + ((b - a) * frac) \div SCALE)

\* the slip of padding with the last difference instead of 0
DiffAppendEdge(a, step) ==
    [j \in 1..(IF Len(a) > 0 THEN Len(a) ELSE 1) |->
        IF j < Len(a) THEN Div(Sub(a[j + 1], a[j]), step)
        ELSE IF Len(a) > 1 THEN Div(Sub(a[Len(a)], a[Len(a) - 1]), step) ELSE Zero]

\* the missing forward sample padded with nan instead of 0
DiffAppendNan(a, step) ==
    [j \in 1..(IF Len(a) > 0 THEN Len(a) ELSE 1) |->
        IF j < Len(a) THEN Div(Sub(a[j + 1], a[j]), step) ELSE NaN]

\* np.diff(a)/dt followed by np.append(.., 0)
DiffAppend(a, step) ==
    [j \in 1..(IF Len(a) > 0 THEN Len(a) ELSE 1) |->
        IF j < Len(a) THEN Div(Sub(a[j + 1], a[j]), step) ELSE Zero]

\* np.where(mask)[0]: the indices where mask holds, ascending
Where(mask) == SelectSeq([j \in 1..Len(mask) |-> j], LAMBDA j : mask[j])

(***************************************************************************)
(* The script's globals.                                                   *)
(***************************************************************************)
VARIABLES
    T, dt, V0, StepStrength, StepWidth, StepDuration, threshold_dV_dt,
    time, Ix, StepTime, end_stimulus_time,
    V, n, m, h, i,
    dV_dt, d2V_dt,
    threshold_i, threshold_t, threshold_v,
    threshold_i_2, threshold_t_2, threshold_v_2,
    pc, err, alloc, run, prev

inputs  == << T, dt, V0, StepStrength, StepWidth, StepDuration, threshold_dV_dt >>
stim    == << time, Ix, StepTime, end_stimulus_time >>
state   == << V, n, m, h, i >>
derivs  == << dV_dt, d2V_dt >>
onset   == << threshold_i, threshold_t, threshold_v >>
inflect == << threshold_i_2, threshold_t_2, threshold_v_2 >>
vars    == << inputs, stim, state, derivs, onset, inflect, pc, err, alloc, run, prev >>

\* what one execution of the script leaves behind
Outputs == [V |-> V, n |-> n, m |-> m, h |-> h, dV_dt |-> dV_dt, d2V_dt |-> d2V_dt,
            threshold_t |-> threshold_t, threshold_v |-> threshold_v,
            threshold_t_2 |-> threshold_t_2, threshold_v_2 |-> threshold_v_2,
            pc |-> pc, err |-> err]

MaxSteps == 6
MaxRuns  == 2
MaxLen   == 4

TSet        == {-3000, 0, 3500, 1000 * MaxSteps}
DtSet       == {-1000, 0, 1000, 2000}
V0Set       == {-65 * SCALE, -55 * SCALE, -40 * SCALE}
StrengthSet == {-30 * SCALE, 0, 30 * SCALE}
WidthSet    == {0, 500}
DurationSet == {0, 500}
ThreshSet   == {100, 15 * SCALE}

Init ==
    /\ T \in TSet
    /\ dt \in DtSet
    /\ V0 \in V0Set
    /\ StepStrength \in StrengthSet
    /\ StepWidth \in WidthSet
    /\ StepDuration \in DurationSet
    /\ threshold_dV_dt \in ThreshSet
    /\ time = << >> /\ Ix = << >>
    /\ StepTime = None /\ end_stimulus_time = None
    /\ V = << >> /\ n = << >> /\ m = << >> /\ h = << >> /\ i = 0
    /\ dV_dt = << >> /\ d2V_dt = << >>
    /\ threshold_i = << >> /\ threshold_t = None /\ threshold_v = None
    /\ threshold_i_2 = << >> /\ threshold_t_2 = None /\ threshold_v_2 = None
    /\ pc = "start" /\ err = "" /\ alloc = {} /\ run = 1
    /\ prev = [pc |-> "none"]

\* the grid step without line 37: an applied current left by an earlier
\* execution is kept instead of zeroed
MakeGridKeepIx ==
    /\ pc = "start"
    /\ IF dt = 0
       THEN /\ pc' = "failed"
            /\ err' = "ZeroDivisionError"
            /\ UNCHANGED << time, Ix, alloc >>
       ELSE /\ time' = Arange(T, dt)
            /\ Ix' = IF "Ix" \in alloc /\ Len(Ix) = Len(time') THEN Ix ELSE ZerosLike(time')
            /\ alloc' = alloc \cup {"time", "Ix"}
            /\ pc' = "stim"
            /\ err' = err
    /\ UNCHANGED << inputs, StepTime, end_stimulus_time, state, derivs, onset,
                    inflect, run, prev >>

\* lines 32-37: the time grid and the zeroed applied current
MakeGrid ==
    /\ pc = "start"
    /\ IF dt = 0
       THEN /\ pc' = "failed"
            /\ err' = "ZeroDivisionError"
            /\ UNCHANGED << time, Ix, alloc >>
       ELSE /\ time' = Arange(T, dt)
            /\ Ix' = ZerosLike(time')
            /\ alloc' = alloc \cup {"time", "Ix"}
            /\ pc' = "stim"
            /\ err' = err
    /\ UNCHANGED << inputs, StepTime, end_stimulus_time, state, derivs, onset,
                    inflect, run, prev >>

\* lines 43-53: the smooth step added to the applied current
Stimulus ==
    /\ pc = "stim"
    /\ StepTime' = Div(Fin(T), Fin(3 * SCALE))
    /\ LET start_cdf == [j \in 1..Len(time) |->
                            NormCdf(time[j], StepTime', Fin(StepWidth))]
           end_cdf   == [j \in 1..Len(time) |->
                            NormCdf(time[j], Add(StepTime', Fin(StepDuration)),
                                    Fin(StepWidth))]
       IN  Ix' = [j \in 1..Len(time) |->
                     Add(Ix[j], Mul(Fin(StepStrength), Sub(start_cdf[j], end_cdf[j])))]
    /\ end_stimulus_time' =
           Add(Add(StepTime', Fin(StepDuration)), Mul(Fin(3 * SCALE), Fin(StepWidth)))
    /\ pc' = "init"
    /\ UNCHANGED << inputs, time, state, derivs, onset, inflect, err, alloc, run, prev >>

\* lines 108-130: the state arrays and the initial condition
InitState ==
    /\ pc = "init"
    /\ alloc' = alloc \cup {"V", "n", "m", "h"}
    /\ IF Len(time) = 0
       THEN /\ V' = << >> /\ n' = << >> /\ m' = << >> /\ h' = << >>
            /\ pc' = "failed"
            /\ err' = "IndexError"
       ELSE /\ V' = [ZerosLike(time) EXCEPT ![1] = Fin(V0)]
            /\ n' = [ZerosLike(time) EXCEPT ![1] = ninfty(Fin(V0))]
            /\ m' = [ZerosLike(time) EXCEPT ![1] = minfty(Fin(V0))]
            /\ h' = [ZerosLike(time) EXCEPT ![1] = hinfty(Fin(V0))]
            /\ pc' = "loop"
            /\ err' = err
    /\ i' = 0
    /\ UNCHANGED << inputs, stim, derivs, onset, inflect, run, prev >>

\* x[i] + dt*((1-x[i])*alpha - x[i]*beta), lines 133-135
GateStep(x, a, b, step) == Add(x, Mul(step, Sub(Mul(Sub(One, x), a), Mul(x, b))))

\* V[i] + dt*(Iion(n,m,h,V) + Ix)/Cm, line 138
VoltStep(v, gn, gm, gh, ix, step) ==
    Add(v, Div(Mul(step, Add(Iion(gn, gm, gh, v), ix)), Cm))

\* a semi-implicit step: the voltage update reads the gates just computed
EulerStepSemiImplicit ==
    /\ pc = "loop"
    /\ i < Len(time) - 1
    /\ LET j == i + 1
       IN  /\ n' = [n EXCEPT ![j + 1] = GateStep(n[j], alphan(V[j]), betan(V[j]), Fin(dt))]
           /\ m' = [m EXCEPT ![j + 1] = GateStep(m[j], alpham(V[j]), betam(V[j]), Fin(dt))]
           /\ h' = [h EXCEPT ![j + 1] = GateStep(h[j], alphah(V[j]), betah(V[j]), Fin(dt))]
           /\ V' = [V EXCEPT ![j + 1] =
                       VoltStep(V[j], n'[j + 1], m'[j + 1], h'[j + 1], Ix[j], Fin(dt))]
    /\ i' = i + 1
    /\ UNCHANGED << inputs, stim, derivs, onset, inflect, pc, err, alloc, run, prev >>

\* the loop with the destination index off by one: x[i] = ... instead of x[i+1] = ...
EulerStepOverwrite ==
    /\ pc = "loop"
    /\ i < Len(time) - 1
    /\ LET j == i + 1
       IN  /\ n' = [n EXCEPT ![j] = GateStep(n[j], alphan(V[j]), betan(V[j]), Fin(dt))]
           /\ m' = [m EXCEPT ![j] = GateStep(m[j], alpham(V[j]), betam(V[j]), Fin(dt))]
           /\ h' = [h EXCEPT ![j] = GateStep(h[j], alphah(V[j]), betah(V[j]), Fin(dt))]
           /\ V' = [V EXCEPT ![j] = VoltStep(V[j], n[j], m[j], h[j], Ix[j], Fin(dt))]
    /\ i' = i + 1
    /\ UNCHANGED << inputs, stim, derivs, onset, inflect, pc, err, alloc, run, prev >>

\* lines 131-138: one iteration of the forward Euler loop (source index i is i+1 here)
EulerStep ==
    /\ pc = "loop"
    /\ i < Len(time) - 1
    /\ LET j == i + 1
       IN  /\ n' = [n EXCEPT ![j + 1] = GateStep(n[j], alphan(V[j]), betan(V[j]), Fin(dt))]
           /\ m' = [m EXCEPT ![j + 1] = GateStep(m[j], alpham(V[j]), betam(V[j]), Fin(dt))]
           /\ h' = [h EXCEPT ![j + 1] = GateStep(h[j], alphah(V[j]), betah(V[j]), Fin(dt))]
           /\ V' = [V EXCEPT ![j + 1] = VoltStep(V[j], n[j], m[j], h[j], Ix[j], Fin(dt))]
    /\ i' = i + 1
    /\ UNCHANGED << inputs, stim, derivs, onset, inflect, pc, err, alloc, run, prev >>

\* lines 141-147, entered when range(len(time)-1) is exhausted
Derivatives ==
    /\ pc = "loop"
    /\ i >= Len(time) - 1
    /\ dV_dt' = DiffAppend(V, Fin(dt))
    /\ d2V_dt' = DiffAppend(dV_dt', Fin(dt))
    /\ alloc' = alloc \cup {"dV_dt", "d2V_dt"}
    /\ pc' = "onset"
    /\ UNCHANGED << inputs, stim, state, onset, inflect, err, run, prev >>

threshold_d2V_dt_min == Fin(-100)
threshold_d2V_dt_max == Fin(100)

\* the slip of a non-strict comparison
ExceedsOrEquals(d) == Ge(d, Fin(threshold_dV_dt))

\* line 154: dV_dt > threshold_dV_dt
Exceeds(d) == Gt(d, Fin(threshold_dV_dt))

\* lines 154-160: first sample whose dV/dt exceeds the threshold
DetectOnset ==
    /\ pc = "onset"
    /\ threshold_i' = Where([j \in 1..Len(dV_dt) |-> Exceeds(dV_dt[j])])
    /\ IF Len(threshold_i') > 0
       THEN /\ threshold_t' = time[threshold_i'[1]]
            /\ threshold_v' = V[threshold_i'[1]]
       ELSE /\ threshold_t' = None
            /\ threshold_v' = None
    /\ pc' = "inflect"
    /\ UNCHANGED << inputs, stim, state, derivs, inflect, err, alloc, run, prev >>

\* the window with the sample at end_stimulus_time let in on the inhibitory side
MaskInclusive(t) == IF StepStrength < 0
                    THEN Ge(t, end_stimulus_time)
                    ELSE Gt(t, StepTime) /\ Lt(t, end_stimulus_time)

\* lines 162-167: the window the inflection search looks in
Mask(t) == IF StepStrength < 0
           THEN Gt(t, end_stimulus_time)
           ELSE Gt(t, StepTime) /\ Lt(t, end_stimulus_time)

\* the band with its two ends left out
InBandStrict(d) == Gt(d, threshold_d2V_dt_min) /\ Lt(d, threshold_d2V_dt_max)

\* lines 164/167: the band test of d2V/dt
InBand(d) == Ge(d, threshold_d2V_dt_min) /\ Le(d, threshold_d2V_dt_max)

\* lines 162-179: first sample in the window whose d2V/dt lies in the band
DetectInflection ==
    /\ pc = "inflect"
    /\ threshold_i_2' = Where([j \in 1..Len(d2V_dt) |-> InBand(d2V_dt[j]) /\ Mask(time[j])])
    /\ IF Len(threshold_i_2') > 0
       THEN /\ threshold_t_2' = time[threshold_i_2'[1]]
            /\ threshold_v_2' = V[threshold_i_2'[1]]
       ELSE /\ threshold_t_2' = None
            /\ threshold_v_2' = None
    /\ pc' = "done"
    /\ UNCHANGED << inputs, stim, state, derivs, onset, err, alloc, run, prev >>

\* the script executed again in the same interpreter: every global keeps its value
Rerun ==
    /\ pc \in {"done", "failed"}
    /\ run < MaxRuns
    /\ prev' = Outputs
    /\ run' = run + 1
    /\ pc' = "start"
    /\ err' = ""
    /\ UNCHANGED << inputs, stim, state, derivs, onset, inflect, alloc >>

Next == \/ MakeGrid \/ Stimulus \/ InitState \/ EulerStep
        \/ Derivatives \/ DetectOnset \/ DetectInflection \/ Rerun

Spec == Init /\ [][Next]_vars

(***************************************************************************)
(* The derivative and detector passes (lines 141-179) on their own: the    *)
(* state after the loop, with an arbitrary voltage trace over the grid.    *)
(***************************************************************************)
TraceValues == {Fin(-650000), Fin(-649900), Fin(-649700), NaN}

DetInit ==
    /\ dt = SCALE
    /\ \E len \in 1..MaxLen : T = len * dt
    /\ V0 = -65 * SCALE
    /\ StepStrength \in StrengthSet
    /\ StepWidth \in {1000, 2500, SCALE}
    /\ StepDuration \in {0, 2500}
    /\ threshold_dV_dt \in ThreshSet
    /\ time = Arange(T, dt)
    /\ Ix = ZerosLike(time)
    /\ StepTime = Div(Fin(T), Fin(3 * SCALE))
    /\ end_stimulus_time =
           Add(Add(StepTime, Fin(StepDuration)), Mul(Fin(3 * SCALE), Fin(StepWidth)))
    /\ V \in [1..Len(time) -> TraceValues]
    /\ n = ZerosLike(time) /\ m = ZerosLike(time) /\ h = ZerosLike(time)
    /\ i = Len(time) - 1
    /\ dV_dt = << >> /\ d2V_dt = << >>
    /\ threshold_i = << >> /\ threshold_t = None /\ threshold_v = None
    /\ threshold_i_2 = << >> /\ threshold_t_2 = None /\ threshold_v_2 = None
    /\ pc = "loop" /\ err = "" /\ alloc = {"time", "Ix", "V", "n", "m", "h"}
    /\ run = 1
    /\ prev = [pc |-> "none"]

DetNext == Derivatives \/ DetectOnset \/ DetectInflection

DetSpec == DetInit /\ [][DetNext]_vars

(***************************************************************************)
(* Properties of the derivative and detector passes, checked under DetSpec *)
(***************************************************************************)
Min(S) == CHOOSE a \in S : \A b \in S : a <= b

\* the samples whose dV/dt is strictly above the threshold
Crossings == {j \in 1..Len(dV_dt) :
                 /\ dV_dt[j].k \in {"fin", "pinf"}
                 /\ (dV_dt[j].k = "fin" => dV_dt[j].v > threshold_dV_dt)}

\* C1: the onset detector reports (time[i], V[i]) at the smallest i with
\* dV_dt[i] > threshold_dV_dt (strictly), and None for both, without raising,
\* when no sample is above the threshold
C1_OnsetFirstCrossing ==
    pc \in {"inflect", "done"} =>
        /\ err = ""
        /\ IF Crossings = {}
           THEN threshold_t = None /\ threshold_v = None
           ELSE /\ threshold_t = time[Min(Crossings)]
                /\ threshold_v = V[Min(Crossings)]

\* an onset found past a sample whose dV/dt equals the threshold exactly
C1_Witness ==
    /\ pc = "inflect"
    /\ Crossings # {}
    /\ Min(Crossings) > 1
    /\ \E j \in 1..(Min(Crossings) - 1) : dV_dt[j] = Fin(threshold_dV_dt)
    /\ threshold_t = time[Min(Crossings)]

\* d2V/dt inside the inclusive band [-0.01, 0.01]
BandHit(j) == d2V_dt[j].k = "fin" /\ d2V_dt[j].v >= -100 /\ d2V_dt[j].v <= 100

\* the inflection detector reports the first sample of the set W, or None
ReportsFirstOf(W) ==
    IF W = {}
    THEN threshold_t_2 = None /\ threshold_v_2 = None
    ELSE threshold_t_2 = time[Min(W)] /\ threshold_v_2 = V[Min(W)]

\* C2 as stated: with a negative amplitude the window is time >= end_stimulus_time
C2_WindowAtOrAfterEnd ==
    (pc = "done" /\ StepStrength < 0) =>
        /\ err = ""
        /\ ReportsFirstOf({j \in 1..Len(time) :
                              time[j].v >= end_stimulus_time.v /\ BandHit(j)})

\* C2: with a negative amplitude the inflection search considers exactly the
\* samples whose time is strictly after end_stimulus_time, reports the first of
\* them whose d2V_dt lies in [-eps, +eps], and reports None, without raising,
\* when none qualifies
C2_WindowAfterEnd ==
    (pc = "done" /\ StepStrength < 0) =>
        /\ err = ""
        /\ ReportsFirstOf({j \in 1..Len(time) :
                              time[j].v > end_stimulus_time.v /\ BandHit(j)})

\* an inhibitory run where the only band sample at or after the end of the
\* stimulus sits exactly at end_stimulus_time, and nothing is reported
C2_Witness ==
    /\ pc = "done"
    /\ StepStrength < 0
    /\ \E j \in 1..Len(time) : time[j] = end_stimulus_time /\ BandHit(j)
    /\ threshold_t_2 = None

\* C3: with a zero or positive amplitude the inflection event is (time[i], V[i])
\* at the smallest i with StepTime < time[i] < end_stimulus_time and
\* -eps <= d2V_dt[i] <= +eps, and None when no such i exists
C3_WindowBetweenOnsetAndEnd ==
    (pc = "done" /\ StepStrength >= 0) =>
        ReportsFirstOf({j \in 1..Len(time) :
                           /\ time[j].v > StepTime.v
                           /\ time[j].v < end_stimulus_time.v
                           /\ BandHit(j)})

\* an excitatory run that reports a sample on the edge of the band although an
\* earlier band sample lies at or before StepTime
C3_Witness ==
    /\ pc = "done"
    /\ StepStrength >= 0
    /\ threshold_t_2 # None
    /\ \E j \in 1..Len(time) :
          /\ time[j] = threshold_t_2
          /\ d2V_dt[j].v \in {-100, 100}
          /\ \E e \in 1..(j - 1) : BandHit(e) /\ time[e].v <= StepTime.v

\* C4: dV_dt and d2V_dt have the length of V, are the forward differences
\* divided by dt (d2V_dt taken over the padded dV_dt), and both end in exactly 0
C4_Derivatives ==
    pc \in {"onset", "inflect", "done"} =>
        LET len == Len(V)
        IN  /\ Len(dV_dt) = len
            /\ Len(d2V_dt) = len
            /\ \A j \in 1..(len - 1) :
                  /\ dV_dt[j] = Div(Sub(V[j + 1], V[j]), Fin(dt))
                  /\ d2V_dt[j] = Div(Sub(dV_dt[j + 1], dV_dt[j]), Fin(dt))
            /\ dV_dt[len] = Zero
            /\ d2V_dt[len] = Zero

\* a trace whose last forward difference is not 0, so that the padded 0 shows
C4_Witness ==
    /\ pc = "onset"
    /\ Len(V) >= 3
    /\ IsFin(dV_dt[Len(V) - 1])
    /\ dV_dt[Len(V) - 1] # Zero
    /\ d2V_dt[Len(V) - 1] = Div(Neg(dV_dt[Len(V) - 1]), Fin(dt))

(***************************************************************************)
(* Properties of the whole script, checked under Spec                      *)
(***************************************************************************)
ConfigInvalid == dt <= 0 \/ T <= 0 \/ StepWidth <= 0

\* C5 as stated: an invalid dt, T or stimulus width ends the run in an error
\* before any array is allocated and before any integration step
C5_InvalidConfigFailsFast ==
    (run = 1 /\ ConfigInvalid) =>
        \/ pc = "start"
        \/ pc = "failed" /\ alloc = {} /\ i = 0

AllFinite(j) == IsFin(V[j]) /\ IsFin(n[j]) /\ IsFin(m[j]) /\ IsFin(h[j])

\* C6 as stated: at V = -55 and V = -40 the rates alpha_n and alpha_m are finite,
\* and an integration step that reads such a voltage leaves a finite state
C6_SingularRatesFinite ==
    (~ConfigInvalid /\ pc \in {"loop", "onset", "inflect", "done"}) =>
        \A j \in 1..(i + 1) :
            V[j] \in {Fin(-55 * SCALE), Fin(-40 * SCALE)} =>
                /\ IsFin(alphan(V[j]))
                /\ IsFin(alpham(V[j]))
                /\ j <= i => AllFinite(j + 1)

\* C7: every completed step wrote (V, n, m, h)[i+1] from (V, n, m, h)[i] and
\* Ix[i] alone: each gate from its old value and the rates at the old voltage,
\* the voltage from the old voltage, the old gates and Ix[i]
C7_ExplicitEulerStep ==
    pc \in {"loop", "onset", "inflect", "done"} =>
        \A j \in 1..i :
            LET step == Fin(dt)
                gate(x, a, b) == Add(x, Mul(step, Sub(Mul(Sub(One, x), a), Mul(x, b))))
                total == Add(Add(Add(IL(V[j]), IK(n[j], V[j])), INa(m[j], h[j], V[j])), Ix[j])
            IN  /\ n[j + 1] = gate(n[j], alphan(V[j]), betan(V[j]))
                /\ m[j + 1] = gate(m[j], alpham(V[j]), betam(V[j]))
                /\ h[j + 1] = gate(h[j], alphah(V[j]), betah(V[j]))
                /\ V[j + 1] = Add(V[j], Div(Mul(step, total), Cm))

\* a step taken while the gates and the applied current are both moving
C7_Witness ==
    /\ pc = "loop"
    /\ i >= 2
    /\ AllFinite(i + 1)
    /\ n[i + 1] # n[i] /\ m[i + 1] # m[i] /\ h[i + 1] # h[i]
    /\ Ix[i] # Ix[i + 1]
    /\ V[i + 1] # V[i]

\* C8: from initialisation on, V[0] = V0 and n[0], m[0], h[0] are
\* alpha/(alpha+beta) at V0; no step writes index 0
C8_InitialCondition ==
    pc \in {"loop", "onset", "inflect", "done"} =>
        LET v == Fin(V0)
        IN  /\ V[1] = v
            /\ n[1] = Div(alphan(v), Add(alphan(v), betan(v)))
            /\ m[1] = Div(alpham(v), Add(alpham(v), betam(v)))
            /\ h[1] = Div(alphah(v), Add(alphah(v), betah(v)))

\* a finished run that left the resting potential, its first sample intact
C8_Witness ==
    /\ pc = "done"
    /\ i >= 2
    /\ AllFinite(1) /\ AllFinite(2)
    /\ V[2] # V[1]
    /\ V[1] = Fin(V0)

C10_RerunIdentical ==
    (run > 1 /\ pc \in {"done", "failed"}) => Outputs = prev

\* a second finished execution with a stimulus that moved the voltage
C10_Witness ==
    /\ run > 1
    /\ pc = "done"
    /\ \E j \in 1..Len(Ix) : IsFin(Ix[j]) /\ Ix[j] # Zero
    /\ \E j \in 1..Len(V) : V[j] # Fin(V0)
    /\ Outputs = prev

\* array b is array a with at most index k rewritten, and a held the zero of
\* its allocation from index k on
WritesOnly(a, b, k) ==
    /\ Len(b) = Len(a)
    /\ \A j \in 1..Len(a) : j # k => b[j] = a[j]
    /\ \A j \in k..Len(a) : a[j] = Zero

\* C11: every step of the integration loop writes V, n, m and h at one index,
\* the one after the index written by the step before (so each of 1..N-1 once,
\* in increasing order), and leaves the time grid and Ix alone; the derivative
\* and detector passes that follow change none of V, n, m, h, Ix and the grid
C11_SingleMonotonicPass ==
    [][ /\ (pc = "loop" /\ pc' = "loop") =>
              /\ i' = i + 1
              /\ i' <= Len(time) - 1
              /\ WritesOnly(V, V', i' + 1)
              /\ WritesOnly(n, n', i' + 1)
              /\ WritesOnly(m, m', i' + 1)
              /\ WritesOnly(h, h', i' + 1)
              /\ time' = time /\ Ix' = Ix
        /\ (pc \in {"loop", "onset", "inflect"} /\ pc' # "loop") =>
              /\ i = Len(time) - 1
              /\ UNCHANGED << V, n, m, h, Ix, time >>
      ]_vars

\* a finished run of at least three steps in which every index 1..N-1 holds a
\* written (non-zero) voltage and gates
C11_Witness ==
    /\ pc = "done"
    /\ i >= 3
    /\ i = Len(time) - 1
    /\ \A j \in 2..Len(time) :
          V[j] # Zero /\ n[j] # Zero /\ m[j] # Zero /\ h[j] # Zero

\* the samples before the last one that lie after end_stimulus_time with
\* d2V/dt in the band: the finite differences proper, the padded sample apart
GenuineHits == {j \in 1..(Len(time) - 1) :
                   time[j].v > end_stimulus_time.v /\ BandHit(j)}

\* C12: with a negative amplitude and the last grid time after
\* end_stimulus_time the inflection detector always reports an event, whatever
\* the trace, because the padded last d2V_dt is 0; when no sample before the
\* last one qualifies, the event is the last sample (time[N-1], V[N-1])
C12_PaddedSampleAlwaysFound ==
    (/\ pc = "done"
     /\ StepStrength < 0
     /\ time[Len(time)].v > end_stimulus_time.v) =>
        /\ threshold_t_2 # None
        /\ threshold_v_2 # None
        /\ Len(threshold_i_2) > 0
        /\ GenuineHits = {} =>
              /\ threshold_i_2[1] = Len(time)
              /\ threshold_t_2 = time[Len(time)]
              /\ threshold_v_2 = V[Len(time)]

\* an inhibitory run whose window holds a sample before the last one, out of
\* the band, so that the padded last sample is what is reported
C12_Witness ==
    /\ pc = "done"
    /\ StepStrength < 0
    /\ \E j \in 1..(Len(time) - 1) :
          /\ time[j].v > end_stimulus_time.v
          /\ IsFin(d2V_dt[j])
          /\ ~BandHit(j)
    /\ GenuineHits = {}
    /\ threshold_t_2 = time[Len(time)]
    /\ d2V_dt[Len(time)] = Zero

=============================================================================
